---- MODULE Spec2Model ----
(***************************************************************************)
(* One run of Speech_Recognition_System.py: main() and the two helpers it  *)
(* calls, get_audio_duration() and transcribe_audio().                     *)
(*                                                                         *)
(* Strings the code inspects (the path, the answers typed at the prompts)  *)
(* are sequences of one-character strings, so that strip(), lower(),       *)
(* split('.')[-1] and replace() are computed as Python computes them.      *)
(* Text the code only concatenates is a sequence of string pieces.         *)
(* The libraries (wave, pydub, speech_recognition, open) are the           *)
(* environment: each call either returns or raises, chosen with \E among   *)
(* the outcomes the file's content allows.                                 *)
(***************************************************************************)
EXTENDS Integers, Sequences, FiniteSets, TLC

VARIABLES
    pc,            \* position of main(): the statement about to run
    typed,         \* what the user types at the first prompt (line 56)
    fs,            \* the file system: path -> content
    writes,        \* paths the run has written to
    file_path,     \* main's file_path
    ext,           \* main's ext
    wav_file,      \* main's wav_file
    rebinds,       \* times line 71 rebound file_path
    handle,        \* get_audio_duration's f: Closed or <<"open", frames, rate>>
    opened,        \* handles get_audio_duration has opened
    durArg,        \* the path handed to get_audio_duration
    duration,      \* main's duration: <<"unset",0>>, <<"int",0>>, <<"float",hundredths>>
    transArg,      \* the path handed to transcribe_audio
    requests,      \* calls of recognizer.recognize_google
    outcome,       \* how the recognition call ended: <<kind, payload>>
    transcription, \* main's transcription
    report,        \* main's report
    printed,       \* the report text written to the console by line 96
    answer,        \* what the user types at the save prompt (line 99)
    save_choice,   \* main's save_choice
    output_file,   \* main's output_file
    saveResult,    \* how lines 102-107 ended
    out,           \* the console: the lines printed and the prompts shown
    trace,         \* the stages entered, in order
    exc,           \* the exception that left main(), "" if none
    convOutcome,   \* how the conversion of lines 67-75 ended, "none" if not tried
    estOutcome     \* how get_audio_duration ended, "none" if not called

vars == <<pc, typed, fs, writes, file_path, ext, wav_file, rebinds, handle,
          opened, durArg, duration, transArg, requests, outcome,
          transcription, report, printed, answer, save_choice, output_file,
          saveResult, out, trace, exc, convOutcome, estOutcome>>

-----------------------------------------------------------------------------
(* Bounds of the model.                                                    *)

MaxSegs == 2
MaxFrames == 1
MaxRate == 2

-----------------------------------------------------------------------------
(* Python string methods.                                                  *)

LowerChar(c) ==
    CASE c = "M" -> "m"
      [] c = "P" -> "p"
      [] c = "Y" -> "y"
      [] OTHER -> c

Lower(s) == [i \in 1..Len(s) |-> LowerChar(s[i])]

RECURSIVE LStrip(_)
LStrip(s) ==
    IF s # <<>> /\ Head(s) = " " THEN LStrip(Tail(s)) ELSE s

RECURSIVE RStrip(_)
RStrip(s) ==
    IF s # <<>> /\ s[Len(s)] = " " THEN RStrip(SubSeq(s, 1, Len(s) - 1)) ELSE s

Strip(s) == RStrip(LStrip(s))

\* s.split('.')[-1]: what follows the last '.', the whole of s when it has none
RECURSIVE LastAfterDot(_)
LastAfterDot(s) ==
    IF \E i \in 1..Len(s) : s[i] = "."
    THEN LastAfterDot(Tail(s))
    ELSE s

StartsWith(s, p) ==
    /\ Len(p) <= Len(s)
    /\ SubSeq(s, 1, Len(p)) = p

EndsWith(s, p) ==
    /\ Len(p) <= Len(s)
    /\ SubSeq(s, Len(s) - Len(p) + 1, Len(s)) = p

\* s.replace(old, new): every non-overlapping occurrence, left to right
RECURSIVE Replace(_, _, _)
Replace(s, old, new) ==
    IF s = <<>> THEN <<>>
    ELSE IF StartsWith(s, old)
         THEN new \o Replace(SubSeq(s, Len(old) + 1, Len(s)), old, new)
         ELSE <<Head(s)>> \o Replace(Tail(s), old, new)

Contains(q, x) == \E i \in 1..Len(q) : q[i] = x

IndexOf(q, x) == CHOOSE i \in 1..Len(q) : q[i] = x /\ \A j \in 1..(i - 1) : q[j] # x

-----------------------------------------------------------------------------
(* Inputs.                                                                 *)

DotMp3 == <<".", "m", "p", "3">>
DotWav == <<".", "w", "a", "v">>
Mp3 == <<"m", "p", "3">>

Segments == {<<"a">>, DotMp3, <<".", "M", "P", "3">>, DotWav, Mp3, <<" ">>}

RECURSIVE SegSeqs(_)
SegSeqs(n) ==
    IF n = 0 THEN {<<>>}
    ELSE LET shorter == SegSeqs(n - 1)
         IN  shorter \cup {p \o s : p \in shorter, s \in Segments}

TypedPaths == SegSeqs(MaxSegs)

Answers == {<<"y">>, <<"Y">>, <<" ", "y">>, <<"n">>, <<>>, <<"y", "e", "s">>}

OutNames == {<<"o">>, <<>>}

Texts == {"hello"}
Causes == {"timeout"}
Times == {"t1", "t2"}

WavContent == <<"RIFF">>
Mp3Content == <<"MPEG">>
JunkContent == <<"junk">>
PartialContent == <<>>
Missing == <<"missing">>

Content(f, p) == IF p \in DOMAIN f THEN f[p] ELSE Missing

WriteFile(f, p, c) == [q \in (DOMAIN f) \cup {p} |-> IF q = p THEN c ELSE f[q]]

EmptyFs == [p \in {} |-> <<>>]

Unset == <<"unset", 0>>
NoOutcome == <<"none", "">>
Closed == <<"closed", 0, 0>>

-----------------------------------------------------------------------------
(* What the libraries can do with a file of a given content.               *)

\* AudioSegment.from_mp3 followed by sound.export (lines 68, 70)
ConvertOutcomes(c) ==
    IF c \in {Mp3Content, WavContent}
    THEN {"ok", "decode_fail", "export_fail", "export_partial"}
    ELSE {"decode_fail"}

\* wave.open(path, 'r') (line 19)
OpenOutcomes(c) == IF c = WavContent THEN {"ok", "fail"} ELSE {"fail"}

\* f.getnframes(), f.getframerate() and the division (lines 20-22)
ReadOutcomes == {"ok", "io_error"}

\* sr.AudioFile(path).__enter__ and recognizer.record (lines 39-41)
LoadOutcomes(c) == IF c = WavContent THEN {"ok", "fail"} ELSE {"fail"}

\* recognizer.recognize_google (line 44): the text, or an exception
RecognizeOutcomes ==
    {<<"text", t>> : t \in Texts}
        \cup {<<"unknown", "">>}
        \cup {<<"request", c>> : c \in Causes}
        \cup {<<"other", "">>}

\* open(output_file, 'w') and f.write(report) (lines 103-104)
SaveOutcomes(name) ==
    IF name = <<>> THEN {"open_failed"} ELSE {"ok", "open_failed", "write_failed"}

-----------------------------------------------------------------------------
(* The code's own computations.                                            *)

\* line 62
Extension(path) == Lower(LastAfterDot(path))

\* line 69
WavName(path) == Replace(path, DotMp3, DotWav)

\* round(n / r) to the nearest integer, ties to even, for r > 0
RoundHalfEven(n, r) ==
    LET q == n \div r
        m == n % r
    IN  IF 2 * m < r THEN q
        ELSE IF 2 * m > r THEN q + 1
        ELSE IF q % 2 = 0 THEN q ELSE q + 1

EstimateResult_Negative(readable, frames, rate) ==
    IF readable /\ rate # 0
    THEN <<"float", RoundHalfEven(100 * frames, rate)>>
    ELSE <<"int", 0 - 1>>

\* get_audio_duration's return value, in hundredths of a second: the rounded
\* quotient, or the int 0 of the except branch (ZeroDivisionError included)
EstimateResult(readable, frames, rate) ==
    IF readable /\ rate # 0
    THEN <<"float", RoundHalfEven(100 * frames, rate)>>
    ELSE <<"int", 0>>

HandleAfterWith_Leak(h, raised) == IF raised THEN h ELSE Closed

\* contextlib.closing: f.close() runs when the with block is left
HandleAfterWith(h, raised) == Closed

WarningText == <<"Warning: Audio was not clear enough to recognize.">>

RequestErrorText(cause) == <<"Error: Could not reach Google API: ", cause>>

RecognizeResult_Swallow(kind, payload) ==
    CASE kind = "text" -> [raised |-> FALSE, text |-> <<payload>>]
      [] kind = "unknown" -> [raised |-> FALSE, text |-> WarningText]
      [] kind = "request" -> [raised |-> FALSE, text |-> WarningText]
      [] OTHER -> [raised |-> TRUE, text |-> <<>>]

\* the try statement of transcribe_audio: what it returns, or that the
\* exception is none of the two it catches
RecognizeResult(kind, payload) ==
    CASE kind = "text" -> [raised |-> FALSE, text |-> <<payload>>]
      [] kind = "unknown" -> [raised |-> FALSE, text |-> WarningText]
      [] kind = "request" -> [raised |-> FALSE, text |-> RequestErrorText(payload)]
      [] OTHER -> [raised |-> TRUE, text |-> <<>>]

Digit(d) == <<"0", "1", "2", "3", "4", "5", "6", "7", "8", "9">>[d + 1]

RECURSIVE Digits(_)
Digits(n) == IF n < 10 THEN <<Digit(n)>> ELSE Digits(n \div 10) \o <<Digit(n % 10)>>

\* str(duration): "0" for the int, the shortest decimal for the float
DurStr(d) ==
    IF d[1] = "float"
    THEN Digits(d[2] \div 100) \o <<".">>
            \o (IF d[2] % 10 = 0
                THEN <<Digit((d[2] % 100) \div 10)>>
                ELSE <<Digit((d[2] % 100) \div 10), Digit(d[2] % 10)>>)
    ELSE IF d[2] < 0 THEN <<"-">> \o Digits(0 - d[2]) ELSE Digits(d[2])

Banner == "======================================================================"

DurationLabel == "Duration      : "
SecondsLabel == " seconds\n"
TextLabel == "\nTranscribed Text:\n\n"

\* lines 85-93
FormatReport(path, d, now, text) ==
    <<"\n", Banner, "\n", "TRANSCRIPTION REPORT\n", Banner, "\n", "File Name     : ">>
        \o path
        \o <<"\n", DurationLabel>>
        \o DurStr(d)
        \o <<SecondsLabel, "Time Processed: ", now, "\n", TextLabel>>
        \o text
        \o <<"\n", Banner>>

SaveChosen_Prefix(ans) == StartsWith(Lower(Strip(ans)), <<"y">>)

\* lines 99-100
SaveChosen(ans) == Lower(Strip(ans)) = <<"y">>

-----------------------------------------------------------------------------
(* Console lines.                                                          *)

PromptPath == "Enter path to your WAV or MP3 file: "
NotFoundMsg == "Error: File not found."
ConvertingMsg == "Converting MP3 to WAV..."
ConvertedMsg == "Conversion complete: "
ConvertErrorMsg == "Error during conversion: "
DurationWarningMsg == "Warning: Could not calculate duration: "
DurationMsg == "Audio Duration: "
ListeningMsg == "Listening to audio..."
TranscribingMsg == "Transcribing using Google Speech Recognition API..."
ReportMsg == "<report>"
PromptSave == "Do you want to save the transcription to a file? (y/n): "
PromptName == "Enter filename to save (e.g., output.txt): "
SavedMsg == "Transcription saved to "
SaveErrorMsg == "Error saving file: "

-----------------------------------------------------------------------------
(* The run.                                                                *)

Init ==
    /\ pc = "start"
    /\ typed \in TypedPaths
    /\ fs \in {EmptyFs}
                \cup {[p \in {Strip(typed)} \ {<<>>} |-> c] :
                        c \in {WavContent, Mp3Content, JunkContent}}
    /\ writes = {}
    /\ file_path = <<>>
    /\ ext = <<>>
    /\ wav_file = <<>>
    /\ rebinds = 0
    /\ handle = Closed
    /\ opened = 0
    /\ durArg = <<>>
    /\ duration = Unset
    /\ transArg = <<>>
    /\ requests = 0
    /\ outcome = NoOutcome
    /\ transcription = <<>>
    /\ report = <<>>
    /\ printed = <<>>
    /\ answer = <<>>
    /\ save_choice = <<>>
    /\ output_file = <<>>
    /\ saveResult = "none"
    /\ out = <<>>
    /\ trace = <<>>
    /\ exc = ""
    /\ convOutcome = "none"
    /\ estOutcome = "none"

ResolveInput_NoReturn ==
    /\ pc = "start"
    /\ file_path' = Strip(typed)
    /\ trace' = Append(trace, "ResolveInput")
    /\ IF file_path' \notin DOMAIN fs
       THEN /\ out' = out \o <<PromptPath, NotFoundMsg>>
            /\ ext' = Extension(file_path')
            /\ pc' = "convert"
       ELSE /\ out' = Append(out, PromptPath)
            /\ ext' = Extension(file_path')
            /\ pc' = "convert"
    /\ UNCHANGED <<convOutcome, estOutcome, typed, fs, writes, wav_file, rebinds, handle, opened, durArg,
                   duration, transArg, requests, outcome, transcription, report,
                   printed, answer, save_choice, output_file, saveResult, exc>>

\* lines 56-62: the path prompt, the existence check, the extension
ResolveInput ==
    /\ pc = "start"
    /\ file_path' = Strip(typed)
    /\ trace' = Append(trace, "ResolveInput")
    /\ IF file_path' \notin DOMAIN fs
       THEN /\ out' = out \o <<PromptPath, NotFoundMsg>>
            /\ ext' = ext
            /\ pc' = "done"
       ELSE /\ out' = Append(out, PromptPath)
            /\ ext' = Extension(file_path')
            /\ pc' = "convert"
    /\ UNCHANGED <<convOutcome, estOutcome, typed, fs, writes, wav_file, rebinds, handle, opened, durArg,
                   duration, transArg, requests, outcome, transcription, report,
                   printed, answer, save_choice, output_file, saveResult, exc>>

\* lines 65-75: the mp3 branch; the path passes through otherwise
MaybeConvert ==
    /\ pc = "convert"
    /\ trace' = Append(trace, "MaybeConvert")
    /\ IF ext # Mp3
       THEN /\ pc' = "estimate"
            /\ UNCHANGED <<fs, writes, file_path, wav_file, rebinds, out,
                           convOutcome>>
       ELSE \E o \in ConvertOutcomes(Content(fs, file_path)) :
            /\ convOutcome' = o
            /\ CASE o = "ok" ->
                        /\ wav_file' = WavName(file_path)
                        /\ fs' = WriteFile(fs, wav_file', WavContent)
                        /\ writes' = writes \cup {wav_file'}
                        /\ file_path' = wav_file'
                        /\ rebinds' = rebinds + 1
                        /\ out' = out \o <<ConvertingMsg, ConvertedMsg>>
                        /\ pc' = "estimate"
                   [] o = "decode_fail" ->
                        /\ out' = out \o <<ConvertingMsg, ConvertErrorMsg>>
                        /\ pc' = "done"
                        /\ UNCHANGED <<fs, writes, file_path, wav_file, rebinds>>
                   [] o = "export_fail" ->
                        /\ wav_file' = WavName(file_path)
                        /\ out' = out \o <<ConvertingMsg, ConvertErrorMsg>>
                        /\ pc' = "done"
                        /\ UNCHANGED <<fs, writes, file_path, rebinds>>
                   [] o = "export_partial" ->
                        /\ wav_file' = WavName(file_path)
                        /\ fs' = WriteFile(fs, wav_file', PartialContent)
                        /\ writes' = writes \cup {wav_file'}
                        /\ out' = out \o <<ConvertingMsg, ConvertErrorMsg>>
                        /\ pc' = "done"
                        /\ UNCHANGED <<file_path, rebinds>>
    /\ UNCHANGED <<estOutcome, typed, ext, handle, opened, durArg, duration, transArg,
                   requests, outcome, transcription, report, printed, answer,
                   save_choice, output_file, saveResult, exc>>

\* line 78 and lines 18-19: the call, and wave.open inside the try; when it
\* raises, lines 24-26 and line 79 follow
EstimateOpen ==
    /\ pc = "estimate"
    /\ trace' = Append(trace, "EstimateDuration")
    /\ durArg' = file_path
    /\ \E o \in OpenOutcomes(Content(fs, file_path)) :
         IF o = "ok"
         THEN /\ \E frames \in 0..MaxFrames, rate \in 0..MaxRate :
                    handle' = <<"open", frames, rate>>
              /\ opened' = opened + 1
              /\ pc' = "estimate_read"
              /\ UNCHANGED <<duration, out, estOutcome>>
         ELSE /\ duration' = EstimateResult(FALSE, 0, 0)
              /\ estOutcome' = "open_failed"
              /\ out' = out \o <<DurationWarningMsg, DurationMsg>>
              /\ pc' = "transcribe"
              /\ UNCHANGED <<handle, opened>>
    /\ UNCHANGED <<convOutcome, typed, fs, writes, file_path, ext, wav_file, rebinds,
                   transArg, requests, outcome, transcription, report, printed,
                   answer, save_choice, output_file, saveResult, exc>>

\* lines 20-26 and line 79: the body of the with block, its exit, the return
EstimateRead ==
    /\ pc = "estimate_read"
    /\ \E o \in ReadOutcomes :
         LET readable == o = "ok"
             raised == ~(readable /\ handle[3] # 0)
         IN  /\ duration' = EstimateResult(readable, handle[2], handle[3])
             /\ estOutcome' = IF ~readable THEN "io_error"
                              ELSE IF handle[3] = 0 THEN "zero_rate"
                              ELSE "ok"
             /\ handle' = HandleAfterWith(handle, raised)
             /\ out' = IF raised
                       THEN out \o <<DurationWarningMsg, DurationMsg>>
                       ELSE Append(out, DurationMsg)
    /\ pc' = "transcribe"
    /\ UNCHANGED <<convOutcome, typed, fs, writes, file_path, ext, wav_file, rebinds, opened,
                   durArg, transArg, requests, outcome, transcription, report,
                   printed, answer, save_choice, output_file, saveResult, trace,
                   exc>>

\* line 82 and lines 38-41: the call, the with block that loads the audio;
\* it stands outside the try, so what it raises leaves main()
LoadAudio ==
    /\ pc = "transcribe"
    /\ trace' = Append(trace, "Transcribe")
    /\ transArg' = file_path
    /\ \E o \in LoadOutcomes(Content(fs, file_path)) :
         IF o = "ok"
         THEN /\ out' = Append(out, ListeningMsg)
              /\ pc' = "recognize"
              /\ exc' = exc
         ELSE /\ out' = out
              /\ pc' = "crashed"
              /\ exc' = "AudioFile"
    /\ UNCHANGED <<convOutcome, estOutcome, typed, fs, writes, file_path, ext,
                   wav_file, rebinds, handle,
                   opened, durArg, duration, requests, outcome, transcription,
                   report, printed, answer, save_choice, output_file,
                   saveResult>>

Recognize_Retry ==
    /\ pc = "recognize"
    /\ requests' = requests + 1
    /\ out' = Append(out, TranscribingMsg)
    /\ \E o \in RecognizeOutcomes :
         LET r == RecognizeResult(o[1], o[2])
         IN  /\ outcome' = o
             /\ transcription' = r.text
             /\ pc' = IF r.raised THEN "crashed"
                      ELSE IF o[1] = "request" /\ requests = 0 THEN "recognize"
                      ELSE "format"
             /\ exc' = IF r.raised THEN "recognize_google" ELSE exc
    /\ UNCHANGED <<convOutcome, estOutcome, typed, fs, writes, file_path, ext,
                   wav_file, rebinds, handle,
                   opened, durArg, duration, transArg, report, printed, answer,
                   save_choice, output_file, saveResult, trace>>

\* lines 42-49: the request and the two except clauses
Recognize ==
    /\ pc = "recognize"
    /\ requests' = requests + 1
    /\ out' = Append(out, TranscribingMsg)
    /\ \E o \in RecognizeOutcomes :
         LET r == RecognizeResult(o[1], o[2])
         IN  /\ outcome' = o
             /\ transcription' = r.text
             /\ pc' = IF r.raised THEN "crashed" ELSE "format"
             /\ exc' = IF r.raised THEN "recognize_google" ELSE exc
    /\ UNCHANGED <<convOutcome, estOutcome, typed, fs, writes, file_path, ext,
                   wav_file, rebinds, handle,
                   opened, durArg, duration, transArg, report, printed, answer,
                   save_choice, output_file, saveResult, trace>>

\* lines 85-93
BuildReport ==
    /\ pc = "format"
    /\ trace' = Append(trace, "FormatReport")
    /\ \E now \in Times :
         report' = FormatReport(file_path, duration, now, transcription)
    /\ pc' = "print"
    /\ UNCHANGED <<convOutcome, estOutcome, typed, fs, writes, file_path, ext,
                   wav_file, rebinds, handle,
                   opened, durArg, duration, transArg, requests, outcome,
                   transcription, printed, answer, save_choice, output_file,
                   saveResult, out, exc>>

\* line 96
PrintReport ==
    /\ pc = "print"
    /\ trace' = Append(trace, "PrintReport")
    /\ printed' = report
    /\ out' = Append(out, ReportMsg)
    /\ pc' = "prompt"
    /\ UNCHANGED <<convOutcome, estOutcome, typed, fs, writes, file_path, ext,
                   wav_file, rebinds, handle,
                   opened, durArg, duration, transArg, requests, outcome,
                   transcription, report, answer, save_choice, output_file,
                   saveResult, exc>>

\* lines 99-100
SavePrompt ==
    /\ pc = "prompt"
    /\ trace' = Append(trace, "MaybeSave")
    /\ out' = Append(out, PromptSave)
    /\ \E a \in Answers :
         /\ answer' = a
         /\ save_choice' = Lower(Strip(a))
         /\ pc' = IF SaveChosen(a) THEN "save" ELSE "done"
    /\ UNCHANGED <<convOutcome, estOutcome, typed, fs, writes, file_path, ext,
                   wav_file, rebinds, handle,
                   opened, durArg, duration, transArg, requests, outcome,
                   transcription, report, printed, output_file, saveResult,
                   exc>>

SaveFile_Raises ==
    /\ pc = "save"
    /\ \E n \in OutNames :
         /\ output_file' = Strip(n)
         /\ \E o \in SaveOutcomes(Strip(n)) :
              /\ saveResult' = o
              /\ CASE o = "ok" ->
                        /\ fs' = WriteFile(fs, Strip(n), report)
                        /\ writes' = writes \cup {Strip(n)}
                        /\ out' = out \o <<PromptName, SavedMsg>>
                   [] o = "write_failed" ->
                        /\ fs' = WriteFile(fs, Strip(n), PartialContent)
                        /\ writes' = writes \cup {Strip(n)}
                        /\ out' = out \o <<PromptName, SaveErrorMsg>>
                   [] o = "open_failed" ->
                        /\ fs' = fs
                        /\ writes' = writes
                        /\ out' = out \o <<PromptName, SaveErrorMsg>>
    /\ pc' = IF saveResult' = "ok" THEN "done" ELSE "crashed"
    /\ UNCHANGED <<convOutcome, estOutcome, typed, file_path, ext, wav_file,
                   rebinds, handle, opened,
                   durArg, duration, transArg, requests, outcome, transcription,
                   report, printed, answer, save_choice, trace, exc>>

\* lines 101-107: the filename prompt, the write, the except clause
SaveFile ==
    /\ pc = "save"
    /\ \E n \in OutNames :
         /\ output_file' = Strip(n)
         /\ \E o \in SaveOutcomes(Strip(n)) :
              /\ saveResult' = o
              /\ CASE o = "ok" ->
                        /\ fs' = WriteFile(fs, Strip(n), report)
                        /\ writes' = writes \cup {Strip(n)}
                        /\ out' = out \o <<PromptName, SavedMsg>>
                   [] o = "write_failed" ->
                        /\ fs' = WriteFile(fs, Strip(n), PartialContent)
                        /\ writes' = writes \cup {Strip(n)}
                        /\ out' = out \o <<PromptName, SaveErrorMsg>>
                   [] o = "open_failed" ->
                        /\ fs' = fs
                        /\ writes' = writes
                        /\ out' = out \o <<PromptName, SaveErrorMsg>>
    /\ pc' = "done"
    /\ UNCHANGED <<convOutcome, estOutcome, typed, file_path, ext, wav_file,
                   rebinds, handle, opened,
                   durArg, duration, transArg, requests, outcome, transcription,
                   report, printed, answer, save_choice, trace, exc>>

Next ==
    \/ ResolveInput
    \/ MaybeConvert
    \/ EstimateOpen
    \/ EstimateRead
    \/ LoadAudio
    \/ Recognize
    \/ BuildReport
    \/ PrintReport
    \/ SavePrompt
    \/ SaveFile

Spec == Init /\ [][Next]_vars

-----------------------------------------------------------------------------
(* Properties.                                                             *)

Entered == Strip(typed)

StageOrder ==
    <<"ResolveInput", "MaybeConvert", "EstimateDuration", "Transcribe",
      "FormatReport", "PrintReport", "MaybeSave">>

Rank(stage) == IndexOf(StageOrder, stage)

\* the pieces of a report between "Transcribed Text:" and the closing banner
TranscriptField(r) == SubSeq(r, IndexOf(r, TextLabel) + 1, Len(r) - 2)

\* the pieces of a report between the Duration label and " seconds"
DurationField(r) ==
    SubSeq(r, IndexOf(r, DurationLabel) + 1, IndexOf(r, SecondsLabel) - 1)

\* the pieces of a report between the File Name label and the end of its line
FileNameField(r) == SubSeq(r, 8, IndexOf(r, DurationLabel) - 2)

ConversionFailed == convOutcome \in {"decode_fail", "export_fail", "export_partial"}

EstimateFailed == estOutcome \in {"open_failed", "io_error", "zero_rate"}

\* C1: once EstimateDuration has been entered, no exception leaves main():
\* nothing raised in the Duration Estimator or the Transcription Client
\* escapes its stage.
C1_LaterStagesTotal ==
    Contains(trace, "EstimateDuration") => (pc # "crashed" /\ exc = "")

\* C2: when the extension is "mp3" and the conversion succeeded, the working
\* path ends in ".wav", differs from the entered path, and the entered path
\* has not been written to.
C2_ConvertedPathIsNewWav ==
    (ext = Mp3 /\ convOutcome = "ok") =>
        /\ EndsWith(file_path, DotWav)
        /\ file_path # Entered
        /\ Entered \notin writes

\* C3: in the two fatal cases (the entered path does not exist; the
\* conversion fails) a diagnostic is printed and the run has ended with no
\* later stage executed: no duration read, no recognition request, no report
\* built or printed, no save prompt, no report file written.
C3_FatalCasesStop ==
    LET missing == pc # "start" /\ Entered \notin DOMAIN fs /\ convOutcome = "none"
    IN  (missing \/ ConversionFailed) =>
            /\ pc = "done"
            /\ exc = ""
            /\ missing => out[Len(out)] = NotFoundMsg
            /\ ConversionFailed => out[Len(out)] = ConvertErrorMsg
            /\ ~Contains(trace, "EstimateDuration")
            /\ opened = 0 /\ duration = Unset /\ estOutcome = "none"
            /\ ~Contains(trace, "Transcribe")
            /\ requests = 0 /\ outcome = NoOutcome
            /\ report = <<>> /\ printed = <<>> /\ ~Contains(out, ReportMsg)
            /\ ~Contains(out, PromptSave) /\ ~Contains(out, PromptName)
            /\ saveResult = "none"

C3_Witness ==
    /\ pc = "done"
    /\ convOutcome = "export_partial"
    /\ Contains(out, ConvertErrorMsg)

\* C4: when the file handed to the Duration Estimator cannot be read (open
\* failure, I/O error, zero sample rate) the estimator returns exactly 0 and
\* prints its warning, nothing escapes it, and the run goes on to the
\* Transcription stage with the same working path.
C4_UnreadableGivesZero ==
    EstimateFailed =>
        /\ duration[1] # "unset" /\ duration[2] = 0
        /\ Contains(out, DurationWarningMsg)
        /\ pc = "transcribe" \/ Contains(trace, "Transcribe")
        /\ Contains(trace, "Transcribe") => transArg = durArg

C4_Witness ==
    /\ estOutcome = "zero_rate"
    /\ Contains(trace, "Transcribe")
    /\ transArg = durArg
    /\ duration[2] = 0

\* C5: when the recognition call ends as unintelligible or unreachable, the
\* Transcription Client returns the fixed warning or the error string with
\* the cause, the run goes on to the report, and the printed report carries
\* exactly that string as its transcript and the estimator's value as its
\* duration.
C5_FailureTextReported ==
    outcome[1] \in {"unknown", "request"} =>
        LET expected == IF outcome[1] = "unknown"
                        THEN WarningText
                        ELSE <<"Error: Could not reach Google API: ", outcome[2]>>
        IN  /\ transcription = expected
            /\ pc \in {"format", "print", "prompt", "save", "done"}
            /\ pc \notin {"format", "print"} =>
                  /\ Contains(out, ReportMsg)
                  /\ TranscriptField(printed) = expected
                  /\ DurationField(printed) = DurStr(duration)

C5_Witness ==
    /\ outcome[1] = "request"
    /\ estOutcome = "ok"
    /\ Contains(out, ReportMsg)
    /\ TranscriptField(printed) = <<"Error: Could not reach Google API: ", "timeout">>
    /\ DurationField(printed) = <<"0", ".", "5">>

SaveAttempted == saveResult # "none"

FileWritten == saveResult \in {"ok", "write_failed"}

\* C6 as stated: at the end of a run that showed the save prompt, a report
\* file has been written if and only if the answer, lowercased, is 'y'; for
\* any other answer the filename prompt was not shown; a written file holds
\* exactly the printed report.
C6_WrittenIffAnswerY ==
    (pc = "done" /\ Contains(out, PromptSave)) =>
        /\ FileWritten <=> Lower(answer) = <<"y">>
        /\ Lower(answer) # <<"y">> => ~Contains(out, PromptName)
        /\ FileWritten => fs[output_file] = printed

\* C6 amended: a report file is written only if the answer, stripped of
\* surrounding whitespace and lowercased, is 'y'; for any other answer the
\* filename prompt is not shown, nothing is written and the run ends
\* normally; with that answer the filename prompt is shown and the write is
\* attempted; when the write succeeds the file holds exactly the printed
\* report.
C6_WrittenOnlyIfStrippedY ==
    (Contains(out, PromptSave) /\ pc # "save") =>
        LET yes == Lower(Strip(answer)) = <<"y">>
        IN  /\ pc = "done" /\ exc = ""
            /\ ~yes => /\ ~Contains(out, PromptName)
                       /\ ~SaveAttempted
                       /\ writes \subseteq {wav_file}
            /\ yes => Contains(out, PromptName) /\ SaveAttempted
            /\ saveResult = "ok" =>
                  /\ fs[output_file] = printed
                  /\ out[Len(out)] = SavedMsg

C6_Witness ==
    /\ pc = "done"
    /\ answer = <<" ", "y">>
    /\ saveResult = "ok"
    /\ fs[output_file] = printed
    /\ printed # <<>>

\* C7: the report is printed before the save prompt is shown, and a failure
\* while writing the report file prints a diagnostic, raises nothing, and
\* leaves the run ended normally with the report already printed.
C7_PrintedBeforePromptAndSaveFailureLocal ==
    /\ Contains(out, PromptSave) =>
          /\ Contains(out, ReportMsg)
          /\ IndexOf(out, ReportMsg) < IndexOf(out, PromptSave)
          /\ printed = report /\ printed # <<>>
    /\ (report # <<>> /\ pc # "print") => printed = report
    /\ saveResult \in {"open_failed", "write_failed"} =>
          /\ pc = "done" /\ exc = ""
          /\ out[Len(out)] = SaveErrorMsg
          /\ Contains(out, ReportMsg)

C7_Witness ==
    /\ saveResult = "write_failed"
    /\ pc = "done"
    /\ out[Len(out)] = SaveErrorMsg
    /\ IndexOf(out, ReportMsg) < IndexOf(out, PromptSave)

\* C8: the handle the Duration Estimator opens is open only while the
\* estimator runs: it is closed on the normal and on the exception exit, so
\* no handle is open when the Transcription stage starts or later.
C8_HandleClosedAfterEstimate ==
    /\ pc # "estimate_read" => handle = Closed
    /\ opened <= 1

C8_Witness ==
    /\ pc = "transcribe"
    /\ opened = 1
    /\ estOutcome = "zero_rate"
    /\ handle = Closed

\* C9: the stages are entered in the fixed order, each at most once, and
\* the recognition service is requested at most once, also after a failed
\* request.
C9_StagesInOrderOnce ==
    /\ \A i, j \in 1..Len(trace) : i < j => Rank(trace[i]) < Rank(trace[j])
    /\ requests <= 1
    /\ outcome # NoOutcome => requests = 1

C9_Witness ==
    /\ pc = "done"
    /\ trace = StageOrder
    /\ outcome[1] = "request"
    /\ requests = 1

\* C10: the working path is rebound at most once; when the extension is not
\* "mp3" the estimator, the transcription client and the report get the
\* entered path and no intermediate file is created; when the conversion
\* succeeded they get the converted path, never the entered one; when the
\* conversion failed the working path is not rebound.
C10_WorkingPathConsistent ==
    LET used == (IF durArg # <<>> THEN {durArg} ELSE {})
                    \cup (IF transArg # <<>> THEN {transArg} ELSE {})
                    \cup (IF report # <<>> THEN {FileNameField(report)} ELSE {})
    IN  /\ rebinds <= 1
        /\ (pc \notin {"start", "convert"} /\ convOutcome = "none" /\ Entered \in DOMAIN fs) =>
              /\ used \subseteq {Entered}
              /\ file_path = Entered
              /\ ~SaveAttempted => writes = {}
        /\ convOutcome = "ok" =>
              /\ used \subseteq {wav_file}
              /\ Entered \notin used
              /\ file_path = wav_file
        /\ ConversionFailed => (rebinds = 0 /\ file_path = Entered)

====
